---- MODULE Spec2Model ----
(***************************************************************************)
(* The two-pass transcription pipeline of tts_backend: the HTTP handler    *)
(* app2.transcribe and the command-line video_transcript.transcribe.       *)
(* A run is one call of either function.  Its local variables, its place   *)
(* in the function body (pc) and the file system it works on are the       *)
(* state; one action per statement that can fail or that changes what is   *)
(* on disk or which model is resident.                                     *)
(***************************************************************************)
EXTENDS Integers, Sequences, FiniteSets, TLC

\* ------------------------------------------------------------------ bounds
\* Segments the full pass may emit in one run.
MaxSegs == 2
\* Longest segment text, and longest segment sequence, of the join check.
MaxLen == 3
MaxJoinSegs == 2

\* ------------------------------------------------------------- the values
Runs == {"r1", "r2"}

\* Python's None where a string is expected.
PyNone == "<None>"
\* A local variable that has not been assigned (or whose frame is gone).
Unset == "<unset>"

\* A path is a directory and a final component.
Path(d, n) == [dir |-> d, name |-> n]
NoPath == Path("", "")
PathStr(p) == p.dir \o "/" \o p.name

\* The directories tempfile can hand out, and one directory that is not
\* temporary (where the CLI's video lives, and where an absolute upload
\* name points).
TmpNames == {"/tmp/t1", "/tmp/t2"}
ExtDir == "/ext"
ExtVideo == Path(ExtDir, "in.mp4")

\* Path.home() / ".cache" / "huggingface" / "hub"
HubDir == "~/.cache/huggingface/hub"

\* Characters of a segment text in the join check; IsSpace is what
\* str.strip() removes.
Chars == {" ", "a"}
IsSpace(c) == c \in {" ", "\t", "\n", "\r"}

\* ---------------------------------------------------------- pure functions

\* tmpdir / file.filename (pathlib): an absolute right operand replaces the
\* left one; a relative one is appended below it.
JoinPath(tmpdir, fn) ==
    IF fn.abs THEN Path(fn.dir, fn.name)
    ELSE IF fn.dir = "" THEN Path(tmpdir, fn.name)
    ELSE Path(tmpdir \o "/" \o fn.dir, fn.name)

\* The ffmpeg command line of extract_audio; duration is <<>> (None) or <<n>>.
ExtractCmd(video, wav, duration) ==
    <<"ffmpeg", "-hide_banner", "-loglevel", "error", "-y", "-i", PathStr(video),
      "-ac", "1", "-ar", "16000", "-vn">>
    \o (IF duration # <<>> /\ duration[1] # 0 THEN <<"-t", ToString(duration[1])>> ELSE <<>>)
    \o <<PathStr(wav)>>

\* info.language or "en"
LangOrDefaultNoFallback(reported) == reported

LangOrDefault(reported) ==
    IF reported = PyNone \/ reported = "" THEN "en" ELSE reported

\* "small.en" if lang == "en" else "small"
ModelIdAlwaysMultilingual(lang) == "small"

ModelIdFor(lang) == IF lang = "en" THEN "small.en" ELSE "small"

\* str.strip()
RECURSIVE LStrip(_)
LStrip(s) ==
    IF s # <<>> /\ IsSpace(Head(s)) THEN LStrip(Tail(s)) ELSE s

RECURSIVE RStrip(_)
RStrip(s) ==
    IF s # <<>> /\ IsSpace(s[Len(s)]) THEN RStrip(SubSeq(s, 1, Len(s) - 1)) ELSE s

StripLeftOnly(s) == LStrip(s)

Strip(s) == RStrip(LStrip(s))

\* " ".join(parts)
RECURSIVE JoinNoSeparator(_)
JoinNoSeparator(parts) ==
    IF parts = <<>> THEN <<>> ELSE Head(parts) \o JoinNoSeparator(Tail(parts))

RECURSIVE Join(_)
Join(parts) ==
    IF parts = <<>> THEN <<>>
    ELSE IF Len(parts) = 1 THEN parts[1]
    ELSE parts[1] \o <<" ">> \o Join(Tail(parts))

\* A hub cache entry's name, cut at its separators.  The purge's pattern
\* "**/openai--whisper-tiny*" matches an entry at any depth whose name
\* starts with "openai--whisper-tiny".
TinyPattern == <<"openai", "--", "whisper-tiny">>

\* (A pattern that takes every entry of a tiny model, the loader's included.)
MatchesAnyTiny(name) ==
    \E i \in 1..Len(name) : name[i] \in {"whisper-tiny", "faster-whisper-tiny"}

MatchesTinyPattern(name) ==
    /\ Len(name) >= Len(TinyPattern)
    /\ SubSeq(name, 1, Len(TinyPattern)) = TinyPattern

\* Where the model loader keeps the fast model's files.
FastCacheEntry == <<"models", "--", "Systran", "--", "faster-whisper-tiny">>
OpenaiTinyEntry == <<"openai", "--", "whisper-tiny", ".en">>

\* ------------------------------------------------------------------ state
VARIABLES
    dirs,        \* the directories that exist
    files,       \* the files that exist (paths)
    hub,         \* the entries of ~/.cache/huggingface/hub
    kind,        \* per run: "http" (app2.transcribe), "tts" (app2.tts),
                 \* "cli", or "off"
    pc,          \* per run: the statement the run is at
    frame,       \* per run: the local variables of transcribe
    exc,         \* per run: the exception in flight ("" if none)
    result,      \* per run: what the caller got
    log,         \* per run: the calls made and the models freed, in order
    jsegs,       \* join check: the segment texts emitted
    jparts,      \* join check: the stripped texts pulled so far
    jout,        \* join check: the joined text (<<>> or <<text>>)
    keyfile,     \* key check: the content of .api_key (<<>> if no file)
    starts,      \* key check: what each start of the process saw and did
    xargs,       \* command check: the arguments of extract_audio
    xcmd         \* command check: the command it ran (<<>> before the call)

runVars == <<kind, pc, frame, exc, result, log>>
diskVars == <<dirs, files, hub>>
joinVars == <<jsegs, jparts, jout>>
keyVars == <<keyfile, starts>>
cmdVars == <<xargs, xcmd>>
sideVars == <<joinVars, keyVars, cmdVars>>
vars == <<dirs, files, hub, kind, pc, frame, exc, result, log, jsegs, jparts, jout,
          keyfile, starts, xargs, xcmd>>

\* ------------------------------------------------------------- the inputs
\* API_KEY and the X-API-Key headers a request may carry.
API_KEY == "key"
Headers == {PyNone, "key", "wrong"}

\* The names an upload may carry: a plain one, the two names the handler
\* itself writes to, one below a directory that does not exist, and an
\* absolute one.
Filenames ==
    { [abs |-> FALSE, dir |-> "", name |-> "in.mp4"],
      [abs |-> FALSE, dir |-> "", name |-> "audio_full.wav"],
      [abs |-> FALSE, dir |-> "", name |-> "audio_30s.wav"],
      [abs |-> FALSE, dir |-> "sub", name |-> "in.mp4"],
      [abs |-> TRUE, dir |-> ExtDir, name |-> "in.mp4"] }

\* The device argument.
Devices == {"cpu", "cuda"}

\* The rate parameter of /tts, around the two ends of what it accepts.
MinRate == 60
MaxRate == 200
Rates == {MinRate - 1, MinRate, MaxRate, MaxRate + 1}

\* What info.language may be after the detection pass.
InfoLanguages == {PyNone, "", "en", "fr"}

\* The texts a segment of the full pass may carry in a run.
SegTexts == { <<" ", "a">>, <<"b", " ">> }

\* ------------------------------------------------------------- the locals
\* The local variables before any is assigned, and after the frame is gone.
\*   td          the TemporaryDirectory's name ("" if none)
\*   input_path  input_path (HTTP) / video_path (CLI)
\*   device      the device argument
\*   tiny, small the variable holds a loaded model
\*   segments    whose lazy generator the variable segments holds
\*   lang, model_id
\*   parts       the stripped texts join() has pulled so far
\*   transcript  <<>> while unassigned, <<text>> once assigned
\*   rate        the rate parameter of tts, as text
\*   cache       where the loader keeps the fast model: "hub" or "elsewhere"
EmptyFrame ==
    [td |-> "", input_path |-> NoPath, device |-> Unset,
     tiny |-> FALSE, small |-> FALSE, segments |-> "none",
     lang |-> Unset, model_id |-> Unset, parts |-> <<>>, transcript |-> <<>>,
     rate |-> Unset, cache |-> Unset]

\* The arguments of extract_audio when it has not been called.
NoArgs == [video |-> NoPath, wav |-> NoPath, duration |-> <<>>]

NoResult == [status |-> "none", transcript |-> <<>>, language |-> Unset]

full_wav(r) == Path(frame[r].td, "audio_full.wav")
sample_wav(r) == Path(frame[r].td, "audio_30s.wav")

\* A model stays resident while the run holds its variable or the lazy
\* segment generator it returned (the generator is a method of the model).
FastLiveIn(f) == f.tiny \/ f.segments = "tiny"
FullLiveIn(f) == f.small \/ f.segments = "small"
FastLive(r) == FastLiveIn(frame[r])
FullLive(r) == FullLiveIn(frame[r])
LiveHandles(r) == (IF FastLive(r) THEN 1 ELSE 0) + (IF FullLive(r) THEN 1 ELSE 0)

\* The log entries for the models that stop being resident when the run's
\* locals become f.
Frees(r, f) ==
    (IF FastLive(r) /\ ~FastLiveIn(f) THEN << <<"free", "fast">> >> ELSE <<>>)
    \o (IF FullLive(r) /\ ~FullLiveIn(f) THEN << <<"free", "full">> >> ELSE <<>>)

\* One step of run r: to statement p with locals f, having logged events.
Goto(r, p, f, events) ==
    /\ pc' = [pc EXCEPT ![r] = p]
    /\ frame' = [frame EXCEPT ![r] = f]
    /\ log' = [log EXCEPT ![r] = @ \o events \o Frees(r, f)]

\* (A failure answered by starting over from the first transcoding.)
RaiseAndRetry(r, f, e, events) ==
    /\ Goto(r, "extract_full", f, events \o << <<"raise", e>> >>)
    /\ exc' = [exc EXCEPT ![r] = e]

\* An exception raised inside the with block, the locals being f: the
\* block's exit runs next.
Raise(r, f, e, events) ==
    /\ Goto(r, "unwind", f, events \o << <<"raise", e>> >>)
    /\ exc' = [exc EXCEPT ![r] = e]

\* ------------------------------------------------------------------- Init
\* One call of transcribe, over HTTP or from the command line, or one call
\* of tts, on a disk
\* where the video, the hub cache and a cached fast model may or may not be
\* present; the run marked "off" takes no step.
Init ==
    /\ dirs \in {{ExtDir}, {ExtDir, HubDir}}
    /\ files \in {{}, {ExtVideo}}
    /\ hub \in {{}, {FastCacheEntry, OpenaiTinyEntry}}
    /\ hub # {} => HubDir \in dirs
    /\ kind \in {k \in [Runs -> {"http", "tts", "cli", "off"}] :
                    k["r1"] # "off" /\ k["r2"] = "off"}
    /\ pc = [r \in Runs |-> "start"]
    /\ frame = [r \in Runs |-> EmptyFrame]
    /\ exc = [r \in Runs |-> ""]
    /\ result = [r \in Runs |-> NoResult]
    /\ log = [r \in Runs |-> <<>>]
    /\ jsegs = <<>>
    /\ jparts = <<>>
    /\ jout = <<>>
    /\ keyfile = <<>> /\ starts = <<>>
    /\ xargs = NoArgs /\ xcmd = <<>>

\* ---------------------------------------------------------------- actions
\* (A check that lets any header through, as long as there is one.)
KeyAcceptedIfPresent(header_key) == header_key # PyNone

\* _verify_key: the header must equal API_KEY.
KeyAccepted(header_key) == header_key = API_KEY

\* The request as it arrives: the X-API-Key header it carries.
Request(h) == <<"X-API-Key", h>>

\* app2.transcribe, its first statement: 401 unless the key is right.
VerifyKey(r) ==
    /\ kind[r] = "http" /\ pc[r] = "start"
    /\ \E h \in Headers, dv \in Devices :
         IF KeyAccepted(h)
         THEN /\ Goto(r, "mktemp", [frame[r] EXCEPT !.device = dv], <<Request(h)>>)
              /\ UNCHANGED <<exc, result>>
         ELSE /\ Goto(r, "failed", EmptyFrame, <<Request(h)>>)
              /\ exc' = [exc EXCEPT ![r] = "HTTPException"]
              /\ result' = [result EXCEPT ![r] = [NoResult EXCEPT !.status = "401"]]
    /\ UNCHANGED <<diskVars, kind, sideVars>>

\* app2.tts up to the call of _synthesize: 401 unless the key is right, then
\* 400 unless 60 <= rate <= 200.
TtsVerifyKey(r) ==
    /\ kind[r] = "tts" /\ pc[r] = "start"
    /\ \E h \in Headers, rate \in Rates :
         IF ~KeyAccepted(h)
         THEN /\ Goto(r, "failed", EmptyFrame, <<Request(h)>>)
              /\ exc' = [exc EXCEPT ![r] = "HTTPException"]
              /\ result' = [result EXCEPT ![r] = [NoResult EXCEPT !.status = "401"]]
         ELSE IF ~(MinRate <= rate /\ rate <= MaxRate)
         THEN /\ Goto(r, "failed", EmptyFrame, <<Request(h)>>)
              /\ exc' = [exc EXCEPT ![r] = "HTTPException"]
              /\ result' = [result EXCEPT ![r] = [NoResult EXCEPT !.status = "400"]]
         ELSE /\ Goto(r, "synthesize", [frame[r] EXCEPT !.rate = ToString(rate)],
                      <<Request(h)>>)
              /\ UNCHANGED <<exc, result>>
    /\ UNCHANGED <<diskVars, kind, sideVars>>

\* _synthesize(text, rate) and the response: the engine renders into a
\* NamedTemporaryFile that is gone when the with block ends; the engine may
\* fail to start.
Synthesize(r) ==
    /\ kind[r] = "tts" /\ pc[r] = "synthesize"
    /\ \E ok \in BOOLEAN :
         IF ok
         THEN /\ Goto(r, "done", EmptyFrame,
                      << <<"pyttsx3.init">>, <<"save_to_file", frame[r].rate>> >>)
              /\ result' = [result EXCEPT ![r] = [NoResult EXCEPT !.status = "200 audio/wav"]]
              /\ UNCHANGED exc
         ELSE /\ Goto(r, "failed", EmptyFrame, << <<"pyttsx3.init">> >>)
              /\ exc' = [exc EXCEPT ![r] = "RuntimeError"]
              /\ result' = [result EXCEPT ![r] = [NoResult EXCEPT !.status = "500"]]
    /\ UNCHANGED <<diskVars, kind, sideVars>>

\* (A command line that does not look whether the file exists.)
CheckExistsSkipped(r) ==
    /\ kind[r] = "cli" /\ pc[r] = "start"
    /\ \E dv \in Devices :
         /\ Goto(r, "mktemp",
                 [frame[r] EXCEPT !.device = dv, !.input_path = ExtVideo], <<>>)
         /\ UNCHANGED <<exc, result>>
    /\ UNCHANGED <<diskVars, kind, sideVars>>

\* video_transcript.transcribe, its first statement: exit unless the file
\* exists.
CheckExists(r) ==
    /\ kind[r] = "cli" /\ pc[r] = "start"
    /\ \E dv \in Devices :
         IF ExtVideo \in files
         THEN /\ Goto(r, "mktemp",
                      [frame[r] EXCEPT !.device = dv, !.input_path = ExtVideo], <<>>)
              /\ UNCHANGED <<exc, result>>
         ELSE /\ Goto(r, "failed", EmptyFrame, <<>>)
              /\ exc' = [exc EXCEPT ![r] = "SystemExit"]
              /\ result' = [result EXCEPT ![r] = [NoResult EXCEPT !.status = "exit"]]
    /\ UNCHANGED <<diskVars, kind, sideVars>>

\* with tempfile.TemporaryDirectory() as td: a directory that did not exist.
MkTemp(r) ==
    /\ pc[r] = "mktemp"
    /\ \E d \in TmpNames \ dirs :
         /\ dirs' = dirs \cup {d}
         /\ Goto(r, IF kind[r] = "http" THEN "persist" ELSE "extract_full",
                 [frame[r] EXCEPT !.td = d], << <<"mkdtemp", d>> >>)
    /\ UNCHANGED <<files, hub, kind, exc, result, sideVars>>

\* input_path = tmpdir / file.filename; open(input_path, "wb"): the upload is
\* written where the client's file name says, if that directory exists.
Persist(r) ==
    /\ kind[r] = "http" /\ pc[r] = "persist"
    /\ \E fn \in Filenames :
         LET p == JoinPath(frame[r].td, fn)
             f == [frame[r] EXCEPT !.input_path = p]
         IN  IF p.dir \in dirs
             THEN /\ files' = files \cup {p}
                  /\ Goto(r, "extract_full", f, << <<"open", PathStr(p)>> >>)
                  /\ UNCHANGED exc
             ELSE /\ Raise(r, f, "FileNotFoundError", << <<"open", PathStr(p)>> >>)
                  /\ UNCHANGED files
    /\ UNCHANGED <<dirs, hub, kind, result, sideVars>>

\* Whether ffmpeg can decode the media it is given (ok), as a log entry.
Media(ok) == <<"media", IF ok THEN "decodable" ELSE "undecodable">>

\* (extract_audio with check=True left out: a failed ffmpeg goes unnoticed.)
extract_audio_unchecked(r, wav, duration, next) ==
    LET video == frame[r].input_path
        cmd == ExtractCmd(video, wav, duration)
    IN  \E ok \in BOOLEAN :
          /\ files' = IF ok /\ video \in files /\ video # wav
                      THEN files \cup {wav} ELSE files
          /\ Goto(r, next, frame[r],
                  <<Media(ok), cmd, <<"returncode",
                           IF ok /\ video \in files /\ video # wav THEN "0" ELSE "1">> >>)
          /\ UNCHANGED exc

\* extract_audio(video, wav, duration): run ffmpeg, check=True.  ffmpeg
\* refuses to write the file it reads, and fails on an input it cannot
\* decode; otherwise it leaves wav on disk.
extract_audio(r, wav, duration, next) ==
    LET video == frame[r].input_path
        cmd == ExtractCmd(video, wav, duration)
    IN  \E ok \in BOOLEAN :
          IF ok /\ video \in files /\ video # wav
          THEN /\ files' = files \cup {wav}
               /\ Goto(r, next, frame[r], <<Media(ok), cmd, <<"returncode", "0">> >>)
               /\ UNCHANGED exc
          ELSE /\ Raise(r, frame[r], "CalledProcessError",
                     <<Media(ok), cmd, <<"returncode", "1">> >>)
               /\ UNCHANGED files

ProbeSeconds == 30

\* extract_audio(input_path, full_wav)
ExtractFull(r) ==
    /\ pc[r] = "extract_full"
    /\ extract_audio(r, full_wav(r), <<>>, "extract_sample")
    /\ UNCHANGED <<dirs, hub, kind, result, sideVars>>

\* (A probe transcoding that goes uncapped and overwrites the full audio.)
ExtractSampleUncapped(r) ==
    /\ pc[r] = "extract_sample"
    /\ extract_audio(r, full_wav(r), <<>>, "load_tiny")
    /\ UNCHANGED <<dirs, hub, kind, result, sideVars>>

\* extract_audio(input_path, sample_wav, 30)
ExtractSample(r) ==
    /\ pc[r] = "extract_sample"
    /\ extract_audio(r, sample_wav(r), <<ProbeSeconds>>, "load_tiny")
    /\ UNCHANGED <<dirs, hub, kind, result, sideVars>>

\* The model loader keeps what it downloads as entry: in the hub cache when
\* that exists, and otherwise either there (making it) or in a cache
\* configured elsewhere.
CacheAfterLoad(entry) ==
    \E here \in (IF HubDir \in dirs THEN {TRUE} ELSE BOOLEAN) :
        /\ dirs' = IF here THEN dirs \cup {HubDir} ELSE dirs
        /\ hub' = IF here THEN hub \cup {entry} ELSE hub

\* tiny = WhisperModel("tiny", device=device, compute_type="int8"), its
\* first half: the loader makes sure the model's files are in its cache
\* (nothing to do when they are, a download when not), or fails.
FetchTiny(r) ==
    /\ pc[r] = "load_tiny"
    /\ LET call == <<"WhisperModel", "tiny", frame[r].device, "int8">>
       IN  \E ok \in BOOLEAN :
             IF ok
             THEN /\ CacheAfterLoad(FastCacheEntry)
                  /\ Goto(r, "read_tiny",
                          [frame[r] EXCEPT !.cache = IF HubDir \in dirs'
                                                     THEN "hub" ELSE "elsewhere"],
                          <<call>>)
                  /\ UNCHANGED exc
             ELSE /\ Raise(r, frame[r], "ModelLoadError", <<call>>)
                  /\ UNCHANGED <<dirs, hub>>
    /\ UNCHANGED <<files, kind, result, sideVars>>

\* Whether the device can take the model (ok), as a log entry.
Loadable(ok) == <<"loadable", IF ok THEN "yes" ELSE "no">>

\* The same statement, its second half: the model is read from the files in
\* the cache, which must still be there, onto the device.
LoadTiny(r) ==
    /\ pc[r] = "read_tiny"
    /\ \E ok \in BOOLEAN :
         IF ok /\ (frame[r].cache = "elsewhere" \/ FastCacheEntry \in hub)
         THEN /\ Goto(r, "detect", [frame[r] EXCEPT !.tiny = TRUE],
                      <<Loadable(ok), <<"loaded", "fast", "tiny">> >>)
              /\ UNCHANGED exc
         ELSE Raise(r, frame[r], "ModelLoadError", <<Loadable(ok)>>)
    /\ UNCHANGED <<diskVars, kind, result, sideVars>>

\* segments, info = tiny.transcribe(str(sample_wav), language=None,
\* beam_size=1); lang = info.language or "en".  The language is found before
\* transcribe returns; the segments are a generator nothing has run yet.
Detect(r) ==
    /\ pc[r] = "detect"
    /\ LET call == <<"transcribe", "tiny", PathStr(sample_wav(r)), PyNone, "1", "">>
       IN  \/ /\ sample_wav(r) \in files
              /\ \E reported \in InfoLanguages :
                   Goto(r, "release_tiny",
                        [frame[r] EXCEPT !.segments = "tiny",
                                         !.lang = LangOrDefault(reported)],
                        <<call, <<"detected", reported>> >>
                        \o (IF kind[r] = "cli"
                            THEN << <<"print", LangOrDefault(reported)>> >> ELSE <<>>))
              /\ UNCHANGED exc
           \/ Raise(r, frame[r], "DecodeError", <<call>>)
    /\ UNCHANGED <<diskVars, kind, result, sideVars>>

\* tiny = None; gc.collect()
ReleaseTiny(r) ==
    /\ pc[r] = "release_tiny"
    /\ Goto(r, "purge", [frame[r] EXCEPT !.tiny = FALSE], << <<"release", "tiny">> >>)
    /\ UNCHANGED <<diskVars, kind, exc, result, sideVars>>

\* What the purge leaves of the hub cache: rmtree(ignore_errors=True) of
\* every entry the pattern matches.
HubAfterPurge(h) == {n \in h : ~MatchesTinyPattern(n)}

\* cache.glob("**/openai--whisper-tiny*"): nothing when there is no cache.
Globbed == IF HubDir \in dirs THEN {n \in hub : MatchesTinyPattern(n)} ELSE {}

\* (A purge that lets a failed deletion out as an exception.)
PurgeRaising(r) ==
    /\ pc[r] = "purge"
    /\ \E stuck \in SUBSET Globbed :
         /\ hub' = HubAfterPurge(hub) \cup stuck
         /\ IF stuck = {}
            THEN Goto(r, "load_small", frame[r], << <<"purge">> >>) /\ UNCHANGED exc
            ELSE Raise(r, frame[r], "OSError", << <<"purge">> >>)
    /\ UNCHANGED <<dirs, files, kind, result, sideVars>>

\* for p in cache.glob("**/openai--whisper-tiny*"):
\*     shutil.rmtree(p, ignore_errors=True)
\* Any of the matching entries may resist deletion (stuck); rmtree swallows
\* the error and the entry stays.
Purge(r) ==
    /\ pc[r] = "purge"
    /\ \E stuck \in SUBSET Globbed :
         hub' = HubAfterPurge(hub) \cup stuck
    /\ Goto(r, "load_small", frame[r], << <<"purge">> >>)
    /\ UNCHANGED <<dirs, files, kind, exc, result, sideVars>>

\* model_id = ...; small = WhisperModel(model_id, device=device, ...)
LoadSmall(r) ==
    /\ pc[r] = "load_small"
    /\ LET id == ModelIdFor(frame[r].lang)
           f == [frame[r] EXCEPT !.model_id = id]
           call == <<"WhisperModel", id, frame[r].device, "int8">>
       IN  \E ok \in BOOLEAN :
             IF ok
             THEN /\ Goto(r, "full_transcribe", [f EXCEPT !.small = TRUE],
                          <<call, <<"loaded", "full", id>> >>)
                  /\ CacheAfterLoad(<<"models", "--", "Systran", "--",
                                       "faster-whisper-" \o id>>)
                  /\ UNCHANGED exc
             ELSE /\ Raise(r, f, "ModelLoadError", <<call>>)
                  /\ UNCHANGED <<dirs, hub>>
    /\ UNCHANGED <<files, kind, result, sideVars>>

\* segments, _ = small.transcribe(str(full_wav), language=lang, beam_size=5,
\* vad_filter=True): segments now holds the full pass's generator, and the
\* detection pass's generator is dropped.
FullTranscribe(r) ==
    /\ pc[r] = "full_transcribe"
    /\ LET call == <<"transcribe", frame[r].model_id, PathStr(full_wav(r)),
                     frame[r].lang, "5", "vad_filter">>
       IN  \/ /\ full_wav(r) \in files
              /\ Goto(r, "drain", [frame[r] EXCEPT !.segments = "small"],
                      <<call, <<"segments", "small">> >>)
              /\ UNCHANGED exc
           \/ Raise(r, frame[r], "DecodeError", <<call>>)
    /\ UNCHANGED <<diskVars, kind, result, sideVars>>

\* (A run that goes through the segments a second time after joining them.)
PullAgain(r) ==
    /\ pc[r] = "drain"
    /\ \/ /\ Len(frame[r].parts) < MaxSegs
          /\ \E t \in SegTexts :
               Goto(r, "drain", [frame[r] EXCEPT !.parts = Append(@, Strip(t))],
                    << <<"pull", t>> >>)
          /\ UNCHANGED exc
       \/ /\ Goto(r, IF \E i \in 1..Len(log[r]) : log[r][i][1] = "joined"
                     THEN "exit_with" ELSE "drain",
                  [frame[r] EXCEPT !.transcript = <<Join(frame[r].parts)>>,
                                   !.parts = <<>>],
                  << <<"joined">> >>)
          /\ UNCHANGED exc
       \/ Raise(r, frame[r], "DecodeError", <<>>)
    /\ UNCHANGED <<diskVars, kind, result, sideVars>>

\* transcript = " ".join(s.text.strip() for s in segments): join pulls the
\* generator to its end, then joins; a segment may fail to decode.
Pull(r) ==
    /\ pc[r] = "drain"
    /\ \/ /\ Len(frame[r].parts) < MaxSegs
          /\ \E t \in SegTexts :
               Goto(r, "drain", [frame[r] EXCEPT !.parts = Append(@, Strip(t))],
                    << <<"pull", t>> >>)
          /\ UNCHANGED exc
       \/ /\ Goto(r, "exit_with",
                  [frame[r] EXCEPT !.transcript = <<Join(frame[r].parts)>>,
                                   !.parts = <<>>],
                  << <<"joined">> >>)
          /\ UNCHANGED exc
       \/ Raise(r, frame[r], "DecodeError", <<>>)
    /\ UNCHANGED <<diskVars, kind, result, sideVars>>

\* TemporaryDirectory.__exit__: the directory and everything in it go.
DirsAfterCleanup(ds, d) == ds \ {d}
FilesKeptByCleanup(fs, d) == fs

FilesAfterCleanup(fs, d) == {p \in fs : p.dir # d}

\* The with block ends normally.
ExitWith(r) ==
    /\ pc[r] = "exit_with"
    /\ dirs' = DirsAfterCleanup(dirs, frame[r].td)
    /\ files' = FilesAfterCleanup(files, frame[r].td)
    /\ Goto(r, IF kind[r] = "http" THEN "return" ELSE "write_out", frame[r],
            << <<"cleanup", frame[r].td>> >>)
    /\ UNCHANGED <<hub, kind, exc, result, sideVars>>

\* return {"transcript": transcript, "language": lang}
Return(r) ==
    /\ kind[r] = "http" /\ pc[r] = "return"
    /\ result' = [result EXCEPT ![r] =
                    [status |-> "200", transcript |-> frame[r].transcript[1],
                     language |-> frame[r].lang]]
    /\ Goto(r, "done", EmptyFrame, <<>>)
    /\ UNCHANGED <<diskVars, kind, exc, sideVars>>

\* video_path.stem, for the names a video has here.
Stem(name) == CASE name = "in.mp4" -> "in" [] OTHER -> name

\* video_path.with_name(f"{video_path.stem}_transcript.txt")
OutFile(video) == Path(video.dir, Stem(video.name) \o "_transcript.txt")

\* out_file.write_text(transcript); the prints; the function returns.
WriteOut(r) ==
    /\ kind[r] = "cli" /\ pc[r] = "write_out"
    /\ files' = files \cup {OutFile(frame[r].input_path)}
    /\ result' = [result EXCEPT ![r] =
                    [status |-> "file", transcript |-> frame[r].transcript[1],
                     language |-> Unset]]
    /\ Goto(r, "done", EmptyFrame, << <<"write_text", PathStr(OutFile(frame[r].input_path))>> >>)
    /\ UNCHANGED <<dirs, hub, kind, exc, sideVars>>

\* (A handler that answers with what was decoded before the failure.)
FailureResultPartial(r) ==
    [status |-> IF kind[r] = "http" THEN "200" ELSE "file",
     transcript |-> Join(frame[r].parts), language |-> frame[r].lang]

\* What the caller gets when the exception leaves the function: no
\* transcript is assigned, none is returned or written.
FailureResult(r) ==
    [NoResult EXCEPT !.status = IF kind[r] = "http" THEN "500" ELSE "crash"]

\* The with block ends by an exception: the directory goes, the exception
\* leaves the function (a 500 for the HTTP caller, a traceback for the CLI).
Unwind(r) ==
    /\ pc[r] = "unwind"
    /\ dirs' = DirsAfterCleanup(dirs, frame[r].td)
    /\ files' = FilesAfterCleanup(files, frame[r].td)
    /\ result' = [result EXCEPT ![r] = FailureResult(r)]
    /\ Goto(r, "failed", EmptyFrame, << <<"cleanup", frame[r].td>> >>)
    /\ UNCHANGED <<hub, kind, exc, sideVars>>

Step(r) ==
    \/ VerifyKey(r)
    \/ TtsVerifyKey(r)
    \/ Synthesize(r)
    \/ CheckExists(r)
    \/ MkTemp(r)
    \/ Persist(r)
    \/ ExtractFull(r)
    \/ ExtractSample(r)
    \/ FetchTiny(r)
    \/ LoadTiny(r)
    \/ Detect(r)
    \/ ReleaseTiny(r)
    \/ Purge(r)
    \/ LoadSmall(r)
    \/ FullTranscribe(r)
    \/ Pull(r)
    \/ ExitWith(r)
    \/ Return(r)
    \/ WriteOut(r)
    \/ Unwind(r)

Next == \E r \in Runs : Step(r)

Spec == Init /\ [][Next]_vars

\* --------------------------------------------------- two runs at once
\* Two calls of transcribe (two requests, two command lines, or one of
\* each) whose statements interleave in any order, on a disk that holds the
\* video and a cached fast model.  To keep the product of the two small,
\* both run on the cpu, hear English and decode at most one segment.
NarrowFrame(f) ==
    /\ f.device \in {Unset, "cpu"}
    /\ f.lang \in {Unset, "en"}
    /\ f.parts \in {<<>>, << <<"a">> >>}

InitConc ==
    /\ dirs = {ExtDir, HubDir}
    /\ files = {ExtVideo}
    /\ hub = {FastCacheEntry, OpenaiTinyEntry}
    /\ kind \in [Runs -> {"http", "cli"}]
    /\ pc = [r \in Runs |-> "start"]
    /\ frame = [r \in Runs |-> EmptyFrame]
    /\ exc = [r \in Runs |-> ""]
    /\ result = [r \in Runs |-> NoResult]
    /\ log = [r \in Runs |-> <<>>]
    /\ jsegs = <<>>
    /\ jparts = <<>>
    /\ jout = <<>>
    /\ keyfile = <<>> /\ starts = <<>>
    /\ xargs = NoArgs /\ xcmd = <<>>

NextConc ==
    \E r \in Runs :
        \/ VerifyKey(r) /\ NarrowFrame(frame'[r])
        \/ CheckExists(r) /\ NarrowFrame(frame'[r])
        \/ MkTemp(r) /\ NarrowFrame(frame'[r])
        \/ Persist(r) /\ NarrowFrame(frame'[r])
        \/ ExtractFull(r) /\ NarrowFrame(frame'[r])
        \/ ExtractSample(r) /\ NarrowFrame(frame'[r])
        \/ FetchTiny(r) /\ NarrowFrame(frame'[r])
        \/ LoadTiny(r) /\ NarrowFrame(frame'[r])
        \/ Detect(r) /\ NarrowFrame(frame'[r])
        \/ ReleaseTiny(r) /\ NarrowFrame(frame'[r])
        \/ Purge(r) /\ NarrowFrame(frame'[r])
        \/ LoadSmall(r) /\ NarrowFrame(frame'[r])
        \/ FullTranscribe(r) /\ NarrowFrame(frame'[r])
        \/ Pull(r) /\ NarrowFrame(frame'[r])
        \/ ExitWith(r) /\ NarrowFrame(frame'[r])
        \/ Return(r) /\ NarrowFrame(frame'[r])
        \/ WriteOut(r) /\ NarrowFrame(frame'[r])
        \/ Unwind(r) /\ NarrowFrame(frame'[r])

SpecConc == InitConc /\ [][NextConc]_vars

\* ------------------------------------------ the two pipelines, one input
\* app2.transcribe and then video_transcript.transcribe on the same media,
\* the second being given the device and the collaborator outcomes (what
\* ffmpeg returned, whether a model loaded, the language reported, the
\* segments decoded) that the first was given, as far as it gets.
HttpRun == "r1"
CliRun == "r2"

\* The exceptions a model raises, as against those the pipeline raises
\* itself (over ffmpeg's return code, over the upload's path).
CollaboratorErrors == {"ModelLoadError", "DecodeError"}

\* What a run was given, read off its log: the device its loads name,
\* whether ffmpeg could decode the media, and what the models answered.
IsOutcome(e) ==
    \/ e[1] \in {"WhisperModel", "media", "loadable", "loaded", "detected", "segments",
                 "pull", "joined"}
    \/ e[1] = "raise" /\ e[2] \in CollaboratorErrors
Outcome(e) ==
    IF e[1] = "WhisperModel" THEN <<"device", e[3]>>
    ELSE IF e[1] = "loaded" THEN <<"loaded", e[2]>>
    ELSE e
OutcomesIn(l) ==
    LET s == SelectSeq(l, IsOutcome)
    IN  [i \in 1..Len(s) |-> Outcome(s[i])]

IsPrefix(s, t) == Len(s) <= Len(t) /\ SubSeq(t, 1, Len(s)) = s

InitEquiv ==
    /\ dirs = {ExtDir}
    /\ files = {ExtVideo}
    /\ hub = {}
    /\ kind = [r \in Runs |-> IF r = HttpRun THEN "http" ELSE "cli"]
    /\ pc = [r \in Runs |-> "start"]
    /\ frame = [r \in Runs |-> EmptyFrame]
    /\ exc = [r \in Runs |-> ""]
    /\ result = [r \in Runs |-> NoResult]
    /\ log = [r \in Runs |-> <<>>]
    /\ jsegs = <<>>
    /\ jparts = <<>>
    /\ jout = <<>>
    /\ keyfile = <<>> /\ starts = <<>>
    /\ xargs = NoArgs /\ xcmd = <<>>

\* The request is served to its end, then the command line runs.
Turn(r) ==
    IF r = HttpRun THEN pc[HttpRun] \notin {"done", "failed"}
    ELSE pc[HttpRun] \in {"done", "failed"}

\* After the step the command line has been given what the request was
\* given, as far as the two go: one's outcomes begin the other's.
Follows ==
    \/ IsPrefix(OutcomesIn(log'[CliRun]), OutcomesIn(log'[HttpRun]))
    \/ IsPrefix(OutcomesIn(log'[HttpRun]), OutcomesIn(log'[CliRun]))

NextEquiv ==
    \E r \in Runs :
        \/ Turn(r) /\ VerifyKey(r) /\ Follows
        \/ Turn(r) /\ CheckExists(r) /\ Follows
        \/ Turn(r) /\ MkTemp(r) /\ Follows
        \/ Turn(r) /\ Persist(r) /\ Follows
        \/ Turn(r) /\ ExtractFull(r) /\ Follows
        \/ Turn(r) /\ ExtractSample(r) /\ Follows
        \/ Turn(r) /\ FetchTiny(r) /\ Follows
        \/ Turn(r) /\ LoadTiny(r) /\ Follows
        \/ Turn(r) /\ Detect(r) /\ Follows
        \/ Turn(r) /\ ReleaseTiny(r) /\ Follows
        \/ Turn(r) /\ Purge(r) /\ Follows
        \/ Turn(r) /\ LoadSmall(r) /\ Follows
        \/ Turn(r) /\ FullTranscribe(r) /\ Follows
        \/ Turn(r) /\ Pull(r) /\ Follows
        \/ Turn(r) /\ ExitWith(r) /\ Follows
        \/ Turn(r) /\ Return(r) /\ Follows
        \/ Turn(r) /\ WriteOut(r) /\ Follows
        \/ Turn(r) /\ Unwind(r) /\ Follows

SpecEquiv == InitEquiv /\ [][NextEquiv]_vars

\* ------------------------------------------------- the join, on its own
\* " ".join(s.text.strip() for s in segments) over every short sequence of
\* short texts: the generator expression strips each segment as join pulls
\* it, and join concatenates when the generator ends.
Texts == UNION {[1..n -> Chars] : n \in 0..MaxLen}
SegmentSeqs == UNION {[1..n -> Texts] : n \in 0..MaxJoinSegs}

InitJoin ==
    /\ dirs = {ExtDir}
    /\ files = {}
    /\ hub = {}
    /\ kind = [r \in Runs |-> "off"]
    /\ pc = [r \in Runs |-> "start"]
    /\ frame = [r \in Runs |-> EmptyFrame]
    /\ exc = [r \in Runs |-> ""]
    /\ result = [r \in Runs |-> NoResult]
    /\ log = [r \in Runs |-> <<>>]
    /\ jsegs \in SegmentSeqs
    /\ jparts = <<>>
    /\ jout = <<>>
    /\ keyfile = <<>> /\ starts = <<>>
    /\ xargs = NoArgs /\ xcmd = <<>>

JoinPull ==
    /\ jout = <<>>
    /\ Len(jparts) < Len(jsegs)
    /\ jparts' = Append(jparts, Strip(jsegs[Len(jparts) + 1]))
    /\ UNCHANGED <<diskVars, runVars, jsegs, jout, keyVars, cmdVars>>

JoinFinish ==
    /\ jout = <<>>
    /\ Len(jparts) = Len(jsegs)
    /\ jout' = <<Join(jparts)>>
    /\ UNCHANGED <<diskVars, runVars, jsegs, jparts, keyVars, cmdVars>>

NextJoin == JoinPull \/ JoinFinish

SpecJoin == InitJoin /\ [][NextJoin]_vars

\* ------------------------------------------------ the API key, on its own
\* _init_api_key over successive starts of the process.  An optional value is
\* <<>> (no environment variable, no file) or <<text>>.
MaxStarts == 3

\* What API_KEY may be set to in the environment of a start.
EnvTexts == { <<>>, <<"a">>, <<" ", "a">> }
EnvValues == {<<>>} \cup {<<t>> : t \in EnvTexts}

\* What uuid.uuid4().hex may give: never empty, never with a space.
NewKeys == {t \in Texts : t # <<>> /\ \A i \in 1..Len(t) : ~IsSpace(t[i])}

\* (An initialisation that makes a new key whenever the environment has none.)
InitApiKeyRegenerating(env_key, file, new_key) ==
    IF env_key # <<>> /\ env_key[1] # <<>>
    THEN [key |-> env_key[1], file |-> file]
    ELSE [key |-> new_key, file |-> <<new_key>>]

\* _init_api_key: the key it returns and the file it leaves, given
\* os.getenv("API_KEY"), the file's content and the key uuid4 would give.
\* "if env_key:" is false for None and for the empty string.
InitApiKey(env_key, file, new_key) ==
    IF env_key # <<>> /\ env_key[1] # <<>>
    THEN [key |-> env_key[1], file |-> file]
    ELSE IF file # <<>>
    THEN [key |-> Strip(file[1]), file |-> file]
    ELSE [key |-> new_key, file |-> <<new_key>>]

InitKey ==
    /\ dirs = {ExtDir}
    /\ files = {}
    /\ hub = {}
    /\ kind = [r \in Runs |-> "off"]
    /\ pc = [r \in Runs |-> "start"]
    /\ frame = [r \in Runs |-> EmptyFrame]
    /\ exc = [r \in Runs |-> ""]
    /\ result = [r \in Runs |-> NoResult]
    /\ log = [r \in Runs |-> <<>>]
    /\ jsegs = <<>>
    /\ jparts = <<>>
    /\ jout = <<>>
    /\ keyfile \in {<<>>} \cup {<<t>> : t \in Texts}
    /\ starts = <<>>
    /\ xargs = NoArgs /\ xcmd = <<>>

\* API_KEY = _init_api_key(), at import: one start of the process.
StartProcess ==
    /\ Len(starts) < MaxStarts
    /\ \E env_key \in EnvValues, new_key \in NewKeys :
         LET out == InitApiKey(env_key, keyfile, new_key)
         IN  /\ keyfile' = out.file
             /\ starts' = Append(starts, [env |-> env_key, before |-> keyfile,
                                          key |-> out.key, after |-> out.file])
    /\ UNCHANGED <<diskVars, runVars, joinVars, cmdVars>>

NextKey == StartProcess

SpecKey == InitKey /\ [][NextKey]_vars

\* ---------------------------------------- the ffmpeg command, on its own
\* extract_audio called with any video, any output and any duration.
MaxDuration == 2

ArgVideos == {ExtVideo} \cup {Path(d, "in.mp4") : d \in TmpNames}
ArgWavs == {Path(d, n) : d \in TmpNames, n \in {"audio_full.wav", "audio_30s.wav"}}
ArgDurations == {<<>>, <<ProbeSeconds>>} \cup {<<n>> : n \in 0..MaxDuration}

InitCmd ==
    /\ dirs = {ExtDir}
    /\ files = {}
    /\ hub = {}
    /\ kind = [r \in Runs |-> "off"]
    /\ pc = [r \in Runs |-> "start"]
    /\ frame = [r \in Runs |-> EmptyFrame]
    /\ exc = [r \in Runs |-> ""]
    /\ result = [r \in Runs |-> NoResult]
    /\ log = [r \in Runs |-> <<>>]
    /\ jsegs = <<>>
    /\ jparts = <<>>
    /\ jout = <<>>
    /\ keyfile = <<>> /\ starts = <<>>
    /\ xargs \in [video : ArgVideos, wav : ArgWavs, duration : ArgDurations]
    /\ xcmd = <<>>

\* extract_audio(video, wav, duration), up to the command it hands to
\* subprocess.run.
ExtractCall ==
    /\ xcmd = <<>>
    /\ xcmd' = ExtractCmd(xargs.video, xargs.wav, xargs.duration)
    /\ UNCHANGED <<diskVars, runVars, joinVars, keyVars, xargs>>

NextCmd == ExtractCall

SpecCmd == InitCmd /\ [][NextCmd]_vars

\* ----------------------------------------------------- reading the log
Active == {r \in Runs : kind[r] \in {"http", "cli"}}
Requests == {r \in Runs : kind[r] \in {"http", "tts"}}
Terminated(r) == pc[r] \in {"done", "failed"}
Succeeded(r) == pc[r] = "done"

\* The positions of the log of r whose entry starts with op.
At(r, op) == {i \in 1..Len(log[r]) : log[r][i][1] = op}
LoadsFull(r) == {i \in At(r, "WhisperModel") : log[r][i][2] # "tiny"}
AcquiresFast(r) == {i \in At(r, "loaded") : log[r][i][2] = "fast"}
AcquiresFull(r) == {i \in At(r, "loaded") : log[r][i][2] = "full"}
FreesFast(r) == {i \in At(r, "free") : log[r][i][2] = "fast"}
FreesFull(r) == {i \in At(r, "free") : log[r][i][2] = "full"}
FullPasses(r) == {i \in At(r, "transcribe") : log[r][i][2] # "tiny"}
FailedTranscodes(r) == {i \in At(r, "returncode") : log[r][i][2] = "1"}

\* The temporary directories r made and the paths it wrote the upload to.
TmpDirsOf(r) == {log[r][i][2] : i \in At(r, "mkdtemp")}
PersistedOf(r) == {log[r][i][2] : i \in At(r, "open")}

\* What the detection pass reported in r, and the code the run made of it.
ReportedIn(r) == {log[r][i][2] : i \in At(r, "detected")}
DetectedCodes(r) == {IF c = PyNone \/ c = "" THEN "en" ELSE c : c \in ReportedIn(r)}

\* ------------------------------------------------------------------ claims

\* C1: in every reachable state of a run at most one model is resident,
\* a model being resident while the run holds its variable or the lazy
\* segment generator it produced.
C1_AtMostOneLiveHandle == \A r \in Active : LiveHandles(r) <= 1

\* C2: once a run has ended, by success or by any failure, its temporary
\* directory, the files in it and (HTTP) the persisted upload are gone.
C2_NothingLeftAfterExit ==
    \A r \in Active :
      Terminated(r) =>
        /\ TmpDirsOf(r) \cap dirs = {}
        /\ \A p \in files : p.dir \notin TmpDirsOf(r) /\ PathStr(p) \notin PersistedOf(r)

\* C3: a transcript reaches the caller only from a run in which every stage
\* succeeded and the full pass was drained to its end; a failed run yields
\* none, whatever it had decoded.
C3_AllOrNothing ==
    \A r \in Active :
      /\ result[r].status \in {"200", "file"} =>
           /\ Succeeded(r) /\ exc[r] = ""
           /\ FailedTranscodes(r) = {}
           /\ Cardinality(At(r, "ffmpeg")) = 2
           /\ AcquiresFast(r) # {} /\ At(r, "detected") # {}
           /\ AcquiresFull(r) # {} /\ FullPasses(r) # {}
           /\ At(r, "joined") # {}
      /\ exc[r] # "" =>
           /\ result[r].status \notin {"200", "file"}
           /\ result[r].transcript = <<>>
           /\ At(r, "write_text") = {}
C3_FailedAfterDecoding ==
    \E r \in Active :
      pc[r] = "failed" /\ At(r, "pull") # {} /\ result[r].status = "500"

\* C4: a transcoding process that exits non-zero (full or probe) fails the
\* run with the process error, and the run loads no model and purges no
\* cache.
C4_TranscodeFailureStopsRun ==
    \A r \in Active :
      FailedTranscodes(r) # {} =>
        /\ exc[r] = "CalledProcessError"
        /\ pc[r] \in {"unwind", "failed"}
        /\ At(r, "WhisperModel") = {} /\ At(r, "purge") = {}
        /\ LiveHandles(r) = 0
C4_ProbeTranscodeFailed ==
    \E r \in Active :
      /\ pc[r] = "failed" /\ Cardinality(At(r, "ffmpeg")) = 2
      /\ FailedTranscodes(r) # {}

\* C5: when the detection pass reports no language (None or ""), the run
\* uses "en": the variable lang, the full model loaded ("small.en"), the
\* language given to the full pass and the language returned.
C5_FallbackToEnglish ==
    \A r \in Active :
      (ReportedIn(r) # {} /\ ReportedIn(r) \subseteq {PyNone, ""}) =>
        /\ ~Terminated(r) => frame[r].lang = "en"
        /\ \A i \in LoadsFull(r) : log[r][i][2] = "small.en"
        /\ \A i \in AcquiresFull(r) : log[r][i][3] = "small.en"
        /\ \A i \in FullPasses(r) : log[r][i][2] = "small.en" /\ log[r][i][4] = "en"
        /\ \A i \in At(r, "print") : log[r][i][2] = "en"
        /\ result[r].status = "200" => result[r].language = "en"
C5_FallbackRunAnswered ==
    \E r \in Active :
      /\ ReportedIn(r) = {""}
      /\ result[r].status = "200" /\ result[r].language = "en"
      /\ \E i \in AcquiresFull(r) : log[r][i][3] = "small.en"

\* C6: the full model is chosen by the detected code alone, "small.en"
\* exactly when the code is "en" and "small" otherwise, and the full pass
\* and the result carry that same code.
C6_ModelFollowsDetectedLanguage ==
    \A r \in Active :
      \A c \in DetectedCodes(r) :
        /\ \A i \in LoadsFull(r) :
             /\ (log[r][i][2] = "small.en") <=> (c = "en")
             /\ (log[r][i][2] = "small") <=> (c # "en")
        /\ \A i \in AcquiresFull(r) : log[r][i][3] = log[r][i - 1][2]
        /\ \A i \in FullPasses(r) : log[r][i][4] = c
        /\ result[r].status = "200" => result[r].language = c
C6_MultilingualRun ==
    \E r \in Active :
      /\ ReportedIn(r) = {"fr"} /\ result[r].status = "200"
      /\ result[r].language = "fr"
      /\ \E i \in AcquiresFull(r) : log[r][i][3] = "small"

\* What trimming and joining mean, said by position and not by recursion
\* on the text: the trim of s is s without its leading and trailing run of
\* white space; piece k of the transcript starts after the k-1 pieces
\* before it and one separator for each.
AllSpace(s) == \A i \in 1..Len(s) : IsSpace(s[i])
LeadingSpaces(s) ==
    CHOOSE i \in 0..Len(s) :
      AllSpace(SubSeq(s, 1, i)) /\ (i = Len(s) \/ ~IsSpace(s[i + 1]))
TrailingSpaces(s) ==
    CHOOSE j \in 0..Len(s) :
      AllSpace(SubSeq(s, Len(s) - j + 1, Len(s))) /\ (j = Len(s) \/ ~IsSpace(s[Len(s) - j]))
Trimmed(s) ==
    IF AllSpace(s) THEN <<>> ELSE SubSeq(s, LeadingSpaces(s) + 1, Len(s) - TrailingSpaces(s))
RECURSIVE StartOf(_, _)
StartOf(segs, k) ==
    IF k = 1 THEN 0 ELSE StartOf(segs, k - 1) + Len(Trimmed(segs[k - 1])) + 1

\* C7: the transcript is the emitted segments' texts, each trimmed of
\* leading and trailing white space, in emission order, none dropped or
\* merged, with exactly one space between consecutive ones; ("a", "aa")
\* gives "a aa" and no segment gives the empty text.
C7_TranscriptIsTrimmedJoin ==
    jout # <<>> =>
      LET out == jout[1]
          n == Len(jsegs)
      IN  /\ n = 0 => out = <<>>
          /\ n > 0 => Len(out) = StartOf(jsegs, n) + Len(Trimmed(jsegs[n]))
          /\ \A k \in 1..n :
               LET piece == Trimmed(jsegs[k])
                   from == StartOf(jsegs, k)
               IN  /\ from + Len(piece) <= Len(out)
                   /\ SubSeq(out, from + 1, from + Len(piece)) = piece
                   /\ k < n => /\ from + Len(piece) + 1 <= Len(out)
                               /\ out[from + Len(piece) + 1] = " "
          /\ jsegs = << <<"a">>, <<"a", "a">> >> => out = <<"a", " ", "a", "a">>
C7_PaddedSegmentsJoined ==
    /\ jsegs = << <<" ", "a", " ">>, <<"a", " ", "a">> >>
    /\ jout = << <<"a", " ", "a", " ", "a">> >>

\* C8: a run that succeeds acquires the fast model once and frees it once,
\* then acquires the full model once and frees it once, the fast model
\* being freed before the full one is acquired; no run acquires a tier
\* twice.
C8_OneCyclePerTierInTurn ==
    \A r \in Active :
      /\ Cardinality(AcquiresFast(r)) <= 1 /\ Cardinality(AcquiresFull(r)) <= 1
      /\ Succeeded(r) =>
           /\ Cardinality(AcquiresFast(r)) = 1 /\ Cardinality(FreesFast(r)) = 1
           /\ Cardinality(AcquiresFull(r)) = 1 /\ Cardinality(FreesFull(r)) = 1
           /\ \A a \in AcquiresFast(r), b \in FreesFast(r),
                 c \in AcquiresFull(r), d \in FreesFull(r) : a < b /\ b < c /\ c < d

\* C9: once a run has ended, by success or by a failure at any point, no
\* model of the run is resident and neither of its audio files exists.
C9_NothingOutlivesRun ==
    \A r \in Active :
      Terminated(r) =>
        /\ LiveHandles(r) = 0
        /\ Cardinality(FreesFast(r)) = Cardinality(AcquiresFast(r))
        /\ Cardinality(FreesFull(r)) = Cardinality(AcquiresFull(r))
        /\ \A p \in files :
             ~(p.dir \in TmpDirsOf(r) /\ p.name \in {"audio_full.wav", "audio_30s.wav"})
C9_FailedWithFullModelLoaded ==
    \E r \in Active :
      /\ pc[r] = "failed" /\ exc[r] = "DecodeError"
      /\ AcquiresFull(r) # {} /\ At(r, "pull") # {}

\* The stage of a run at statement p: the first two calls of extract_audio
\* make it Normalized, the purge LanguageDetected, the assignment of
\* transcript Transcribed, the end of the with block Cleaned; an exception
\* makes it Failed.
StageOrder == <<"Received", "Normalized", "LanguageDetected", "Transcribed", "Cleaned">>
StageOf(p) ==
    CASE p \in {"unwind", "failed"} -> "Failed"
      [] p \in {"return", "write_out", "done"} -> "Cleaned"
      [] p = "exit_with" -> "Transcribed"
      [] p \in {"load_small", "full_transcribe", "drain"} -> "LanguageDetected"
      [] p \in {"load_tiny", "read_tiny", "detect", "release_tiny", "purge"} -> "Normalized"
      [] OTHER -> "Received"
StageActions == {"ffmpeg", "WhisperModel", "transcribe", "pull", "purge"}

\* C10: a step leaves the stage of a run where it is, moves it to the next
\* stage in order, or moves it from a stage that is not terminal to
\* Failed; Cleaned and Failed are never left, and once a run has failed it
\* transcodes, loads, decodes and purges no more.
C10_StagesOnlyForward ==
    [][\A r \in Active :
         LET a == StageOf(pc[r])
             b == StageOf(pc'[r])
         IN  /\ a \in {"Cleaned", "Failed"} => b = a
             /\ \/ b = a
                \/ b = "Failed" /\ a \notin {"Cleaned", "Failed"}
                \/ \E k \in 1..4 : a = StageOrder[k] /\ b = StageOrder[k + 1]
             /\ a = "Failed" =>
                  /\ Len(log'[r]) >= Len(log[r])
                  /\ \A i \in 1..Len(log'[r]) :
                       IF i <= Len(log[r]) THEN log'[r][i] = log[r][i]
                       ELSE log'[r][i][1] \notin StageActions
      ]_vars
C10_FailedAfterLanguageDetected ==
    \E r \in Active :
      pc[r] = "failed" /\ At(r, "purge") # {} /\ AcquiresFull(r) # {}

\* What run r has made for itself while it is inside the with block: its two
\* audio files and, over HTTP, the upload it wrote to disk.
InBlock(r) == frame[r].td # "" /\ pc[r] \notin {"return", "write_out"}
Persisted(r) ==
    /\ kind[r] = "http" /\ frame[r].input_path # NoPath
    /\ pc[r] # "persist" /\ exc[r] # "FileNotFoundError"
Owned(r) ==
    {full_wav(r), sample_wav(r)}
    \cup (IF Persisted(r) THEN {frame[r].input_path} ELSE {})

\* C11: two runs that are inside their with blocks at the same time have
\* different temporary directories, and no audio file or persisted upload
\* of one is an audio file or persisted upload of the other.
C11_RunsShareNothing ==
    \A a \in Runs : \A b \in Runs \ {a} :
        InBlock(a) /\ InBlock(b) =>
            /\ frame[a].td # frame[b].td
            /\ Owned(a) \cap Owned(b) = {}


\* C12: the purge never fails the run and reports nothing, whether it
\* deleted every matching entry, left some it could not delete, or found no
\* cache at all: the step from the purge always goes on to loading the full
\* model, with no exception in flight, the same locals, no answer to the
\* caller and the same single log entry.
C12_PurgeNeverFails ==
    [][\A r \in Runs :
         pc[r] = "purge" /\ pc'[r] # "purge" =>
            /\ pc'[r] = "load_small"
            /\ exc'[r] = "" /\ result'[r] = NoResult
            /\ frame'[r] = frame[r]
            /\ log'[r] = Append(log[r], <<"purge">>)]_vars

\* A run that succeeded although an entry matching the pattern is still in
\* the cache after its purge.
C12_SucceededWithEntryLeft ==
    \E r \in Active :
        /\ Succeeded(r) /\ At(r, "purge") # {}
        /\ \E n \in hub : MatchesTinyPattern(n)


\* The temporary directories whose cleanup r has run.
CleanedOf(r) == {log[r][i][2] : i \in At(r, "cleanup")}

\* C13: once the cleanup of a run has been done, doing it again changes
\* nothing (neither the directories nor the files), and after it no
\* temporary file of the run is left: not the directory, nothing in it, and
\* not the persisted upload.
C13_SecondCleanupLeavesNothing ==
    \A r \in Active : \A d \in CleanedOf(r) :
        LET ds == DirsAfterCleanup(dirs, d)
            fs == FilesAfterCleanup(files, d)
        IN  /\ ds = dirs /\ fs = files
            /\ d \notin ds
            /\ \A p \in fs : p.dir # d /\ PathStr(p) \notin PersistedOf(r)


\* C14: a request to /tts or /transcribe whose X-API-Key header is absent
\* or is not the configured key is answered 401 and has done nothing else:
\* nothing but its arrival is in its log, it holds no model and no local,
\* and the disk has no temporary directory and no file but the ones that
\* were there.  So whatever a request does beyond that, it carried the key.
C14_NoKeyNoEffect ==
    \A r \in Requests :
        pc[r] # "start" =>
            /\ log[r][1][1] = "X-API-Key"
            /\ log[r][1][2] # API_KEY =>
                 /\ pc[r] = "failed" /\ result[r].status = "401"
                 /\ Len(log[r]) = 1
                 /\ frame[r] = EmptyFrame
                 /\ dirs \subseteq {ExtDir, HubDir}
                 /\ files \subseteq {ExtVideo}

\* An upload sent without the header has been answered.
C14_UploadWithoutKeyRejected ==
    \E r \in Requests :
        /\ kind[r] = "http" /\ pc[r] = "failed"
        /\ log[r] = <<Request(PyNone)>>


\* C15, as stated: at every start a set environment key is the key and the
\* file is left as it was; otherwise the content of an existing file is the
\* key and the file is left as it was; otherwise a new key is made and
\* written; and any two starts without the environment variable return the
\* same key.
C15_EnvThenFileThenGenerate ==
    /\ \A i \in 1..Len(starts) :
         LET s == starts[i]
         IN  IF s.env # <<>> THEN s.key = s.env[1] /\ s.after = s.before
             ELSE IF s.before # <<>> THEN s.key = s.before[1] /\ s.after = s.before
             ELSE s.key \in NewKeys /\ s.after = <<s.key>>
    /\ \A i \in 1..Len(starts) : \A j \in i..Len(starts) :
         starts[i].env = <<>> /\ starts[j].env = <<>> => starts[j].key = starts[i].key

\* Whether the environment gives a key: the variable is set and not empty.
EnvGivesKey(s) == s.env # <<>> /\ s.env[1] # <<>>

\* C15, amended: at every start a non-empty environment key is the key and
\* the file is left as it was; otherwise (variable unset or empty) the
\* content of an existing file, stripped of surrounding whitespace, is the
\* key and the file is left as it was; otherwise a new key is made and
\* written; and any two starts without a non-empty environment key return
\* the same key.
C15_NonEmptyEnvThenStrippedFileThenGenerate ==
    /\ \A i \in 1..Len(starts) :
         LET s == starts[i]
         IN  IF EnvGivesKey(s) THEN s.key = s.env[1] /\ s.after = s.before
             ELSE IF s.before # <<>> THEN s.key = Strip(s.before[1]) /\ s.after = s.before
             ELSE s.key \in NewKeys /\ s.after = <<s.key>>
    /\ \A i \in 1..Len(starts) : \A j \in i..Len(starts) :
         ~EnvGivesKey(starts[i]) /\ ~EnvGivesKey(starts[j]) => starts[j].key = starts[i].key

\* Three starts: the first made the key, the second ran with a key in the
\* environment, the third read the file.
C15_GeneratedThenEnvThenFile ==
    /\ Len(starts) = 3
    /\ starts[1].env = <<>> /\ starts[1].before = <<>>
    /\ EnvGivesKey(starts[2])
    /\ starts[3].env = <<>> /\ starts[3].key = starts[1].key


\* C16: the segments of the full pass are gone through once: every pull
\* and the join that ends them come after the full pass was started, before
\* the cleanup and before any earlier join; while a run is drawing segments
\* its full audio file exists and its full model is resident; and a run
\* that succeeded has joined exactly once.
C16_DrainedOnceBeforeCleanup ==
    \A r \in Active :
        /\ \A i \in At(r, "pull") \cup At(r, "joined") :
             /\ \E k \in FullPasses(r) : k < i
             /\ \A k \in At(r, "cleanup") \cup At(r, "joined") : k >= i
        /\ pc[r] = "drain" =>
             /\ full_wav(r) \in files
             /\ frame[r].small /\ frame[r].segments = "small"
        /\ Succeeded(r) => Cardinality(At(r, "joined")) = 1

\* A run that succeeded after drawing two segments.
C16_TwoSegmentsDrained ==
    \E r \in Active : Succeeded(r) /\ Cardinality(At(r, "pull")) >= 2


\* C17: a purge comes after the fast model was acquired, the language was
\* detected and the fast model was released, in that order; the full model
\* is loaded only after a purge; so a run whose fast load or detection
\* failed purges nothing and loads no full model.
C17_DetectReleasePurgeInOrder ==
    \A r \in Active :
        /\ \A p \in At(r, "purge") :
             \E a \in AcquiresFast(r), dt \in At(r, "detected"), f \in FreesFast(r) :
                 a < dt /\ dt < f /\ f < p
        /\ \A c \in LoadsFull(r) : \E p \in At(r, "purge") : p < c


\* The ffmpeg command lines of r, in order, and what is read from one.
Transcodes(r) == At(r, "ffmpeg")
InputOf(cmd) == cmd[7]
OutputOf(cmd) == cmd[Len(cmd)]
CapOf(cmd) == IF Len(cmd) = 15 THEN <<cmd[13], cmd[14]>> ELSE <<>>

\* C18: a run transcodes at most twice, both times from its input: first
\* into audio_full.wav without a cap, then, only if that succeeded, into
\* audio_30s.wav capped at 30 seconds; no model is loaded before both have
\* succeeded; the detection pass reads audio_30s.wav and the full pass
\* audio_full.wav, each of the run's own directory.
C18_TwoTranscodesThenModels ==
    \A r \in Active :
        LET t == Transcodes(r)
            Full(d) == d \o "/audio_full.wav"
            Probe(d) == d \o "/audio_30s.wav"
        IN  /\ Cardinality(t) <= 2
            /\ t # {} \/ At(r, "transcribe") # {} => Cardinality(TmpDirsOf(r)) = 1
            /\ \A d \in TmpDirsOf(r) :
                 /\ \A i \in t :
                      IF \A j \in t : i <= j
                      THEN /\ OutputOf(log[r][i]) = Full(d)
                           /\ CapOf(log[r][i]) = <<>>
                      ELSE /\ OutputOf(log[r][i]) = Probe(d)
                           /\ CapOf(log[r][i]) = <<"-t", "30">>
                           /\ \A j \in t :
                                j < i => /\ log[r][j + 1] = <<"returncode", "0">>
                                         /\ InputOf(log[r][j]) = InputOf(log[r][i])
                 /\ \A i \in At(r, "transcribe") :
                      log[r][i][3] = IF log[r][i][2] = "tiny" THEN Probe(d) ELSE Full(d)
            /\ \A m \in At(r, "WhisperModel") :
                 /\ Cardinality(t) = 2
                 /\ \A i \in t : i < m /\ log[r][i + 1] = <<"returncode", "0">>

\* A run that has started its full pass.
C18_FullPassStarted ==
    \E r \in Active : FullPasses(r) # {} /\ Cardinality(Transcodes(r)) = 2


\* The options of a command line: where opt stands, and what follows it.
Has(cmd, opt) == \E i \in 1..Len(cmd) : cmd[i] = opt
HasPair(cmd, opt, val) == \E i \in 1..(Len(cmd) - 1) : cmd[i] = opt /\ cmd[i + 1] = val

\* C19: the command of every call reads the video, writes the output last,
\* and forces one channel, 16000 Hz, no video and overwriting; it carries
\* "-t" followed by the duration when a duration was given, whatever its
\* value, and no "-t" when none was.
C19_CommandForcesFormatAndCap ==
    xcmd # <<>> =>
        /\ xcmd[1] = "ffmpeg" /\ xcmd[Len(xcmd)] = PathStr(xargs.wav)
        /\ HasPair(xcmd, "-i", PathStr(xargs.video))
        /\ HasPair(xcmd, "-ac", "1") /\ HasPair(xcmd, "-ar", "16000")
        /\ Has(xcmd, "-vn") /\ Has(xcmd, "-y")
        /\ IF xargs.duration = <<>>
           THEN ~Has(xcmd, "-t")
           ELSE HasPair(xcmd, "-t", ToString(xargs.duration[1]))


\* C20: whatever file name the upload carries, the file the HTTP run has
\* written it to is directly inside the run's temporary directory and is
\* neither audio_full.wav nor audio_30s.wav of that directory.
C20_UploadInsideAndApart ==
    \A r \in Requests :
        Persisted(r) /\ InBlock(r) =>
            /\ frame[r].input_path.dir = frame[r].td
            /\ frame[r].input_path \notin {full_wav(r), sample_wav(r)}


\* The events of a run that the two pipelines have in common, with the
\* run's own paths replaced by what they are for: the input, the full audio,
\* the probe audio, the temporary directory.
InputStrs(r) == IF kind[r] = "cli" THEN {PathStr(ExtVideo)} ELSE PersistedOf(r)
InputRole(r, p) == IF p \in InputStrs(r) THEN "<input>" ELSE p
WavRole(r, p) ==
    IF \E d \in TmpDirsOf(r) : p = d \o "/audio_full.wav" THEN "<full>"
    ELSE IF \E d \in TmpDirsOf(r) : p = d \o "/audio_30s.wav" THEN "<probe>"
    ELSE p
IsShared(e) == e[1] \notin {"X-API-Key", "open", "print", "write_text"}
Shared(r, e) ==
    IF e[1] \in {"mkdtemp", "cleanup"} THEN <<e[1], "<td>">>
    ELSE IF e[1] = "ffmpeg"
    THEN [e EXCEPT ![7] = InputRole(r, e[7]), ![Len(e)] = WavRole(r, e[Len(e)])]
    ELSE IF e[1] = "transcribe" THEN [e EXCEPT ![3] = WavRole(r, e[3])]
    ELSE e
EventsOf(r) ==
    LET s == SelectSeq(log[r], IsShared)
    IN  [i \in 1..Len(s) |-> Shared(r, s[i])]

\* The language the command line printed.
PrintedBy(r) == {log[r][i][2] : i \in At(r, "print")}

\* C21: when a request that got as far as its first transcoding and the
\* command line have both ended, having been given the same device, the
\* same media and the same answers from the models as far as each asked,
\* then each asked for as much as the other; they made the same calls with
\* the same parameters in the same order (transcodings, loads, detection,
\* release, purge, full pass, pulls, cleanup); they ended by the same
\* exception or both without one; and they gave the same transcript and the
\* same language.
C21_SameOutcomesSameRun ==
    (/\ Terminated(HttpRun) /\ Terminated(CliRun)
     /\ At(HttpRun, "ffmpeg") # {})
    => /\ OutcomesIn(log[HttpRun]) = OutcomesIn(log[CliRun])
       /\ EventsOf(HttpRun) = EventsOf(CliRun)
       /\ exc[HttpRun] = exc[CliRun]
       /\ result[HttpRun].status = "200" <=> result[CliRun].status = "file"
       /\ result[HttpRun].status = "500" <=> result[CliRun].status = "crash"
       /\ result[HttpRun].transcript = result[CliRun].transcript
       /\ result[HttpRun].status = "200" => PrintedBy(CliRun) = {result[HttpRun].language}

C23_MissingFileNoEffect ==
    \A r \in Active :
        kind[r] = "cli" =>
            /\ ExtVideo \notin files /\ pc[r] # "start" =>
                 /\ pc[r] = "failed" /\ exc[r] = "SystemExit"
                 /\ result[r].status = "exit"
                 /\ log[r] = <<>>
                 /\ frame[r] = EmptyFrame
                 /\ dirs \subseteq {ExtDir, HubDir} /\ files = {}
                 /\ hub \in {{}, {FastCacheEntry, OpenaiTinyEntry}}
            /\ \A w \in At(r, "write_text") :
                 /\ Succeeded(r)
                 /\ \A k \in (w + 1)..Len(log[r]) : log[r][k][1] = "free"
                 /\ \E c \in At(r, "cleanup") : c < w
                 /\ At(r, "raise") = {}
            /\ OutFile(ExtVideo) \in files => Succeeded(r)

\* The command line has ended on a missing file.
C23_ExitedOnMissingFile ==
    \E r \in Active : kind[r] = "cli" /\ pc[r] = "failed" /\ exc[r] = "SystemExit"


====
